---------------------------- MODULE Spec2Model ----------------------------
(***************************************************************************)
(* Verification model of gilgarmish/xray, src/models/__init__.py and       *)
(* src/models/train.py: the masked reconstruction loss, the two            *)
(* autoencoder architectures (layer lists, forward pass, optimizer),       *)
(* evaluate (scores, precision-recall curve, F1 threshold) and the         *)
(* training script.                                                        *)
(*                                                                         *)
(* Three specifications share the module:                                  *)
(*   SpecLoss     MaskedMSE.forward and the per-sample score of evaluate,  *)
(*                applied to tensors drawn from bounded sets;              *)
(*   SpecForward  construction and one forward pass of either              *)
(*                architecture, one layer per step;                        *)
(*   Spec         the training script: construction, epochs of             *)
(*                train_on_batch, the validation pass, the test pass.      *)
(*                                                                         *)
(* Floating-point values are modelled as exact rationals extended with     *)
(* the IEEE results of a division by zero (nan, inf): <<kind, n, d>>.      *)
(***************************************************************************)
EXTENDS Integers, Sequences, FiniteSets, TLC

VARIABLES
    \* ---- SpecLoss: one call of a loss function
    input, target, mask,  \* the three tensors, flattened to sequences
    call,                 \* which function was applied ("none" before the call)
    result,               \* what it returned
    \* ---- the model instance (SpecForward and Spec)
    model_class,          \* "BaselineAutoencoder" | "BottleneckAutoencoder"
    use_batchnorm,        \* the constructor's use_batchnorm argument
    weights,              \* version of each parametrised layer's weights
    grads,                \* state of each parametrised layer's .grad
    optimizer,            \* the layers whose parameters self.optimizer holds
    \* ---- SpecForward: one forward pass
    image_resolution,     \* height = width of the input image
    f_pc,                 \* "encoder" | "decoder" | "returned" | "raised"
    f_i,                  \* index of the next layer in the current layer list
    x,                    \* the tensor's shape: [c |-> channels, n |-> height = width]
    maxpool_ind,          \* the list of recorded pooling indices
    f_pools,              \* number of MaxPool2d layers applied so far
    f_unpools,            \* the MaxUnpool2d calls so far: <<[ind, x]>>
    \* ---- Spec: the training script
    pc,                   \* position in train.py / evaluate
    num_epochs,           \* run_params['num_epochs']
    train_batches,        \* len(train_loader)
    epoch,                \* loop variable of train.py:113
    batches,              \* train batches consumed in the current epoch
    loss,                 \* last value returned by train_on_batch
    val_metrics,          \* train.py's val_metrics
    eval_type,            \* evaluate's 'type' argument
    opt_threshold,        \* evaluate's local opt_threshold
    losses, true_labels,  \* evaluate's accumulated scores and labels
    metrics,              \* evaluate's return value
    val_passes            \* number of completed validation passes

lossVars == <<input, target, mask, call, result>>
fwdVars == <<image_resolution, f_pc, f_i, x, maxpool_ind, f_pools, f_unpools>>
modelVars == <<model_class, use_batchnorm, weights, grads, optimizer>>
evalVars == <<eval_type, opt_threshold, losses, true_labels, metrics>>
trainVars == <<pc, num_epochs, train_batches, epoch, batches, loss,
               val_metrics, val_passes>>
vars == <<lossVars, fwdVars, modelVars, evalVars, trainVars>>

-----------------------------------------------------------------------------
\* Bounds.

\* elements per tensor handed to a loss function
NPix == 2
\* pixel values range over 0..MaxPixel
MaxPixel == 2
\* pixels per image of a loader
ImagePixels == 1
\* samples per evaluation loader
MaxSamples == 2
\* samples per batch
BatchSize == 2
\* train batches per epoch
MaxBatches == 2
\* largest num_epochs
MaxEpochs == 2

Pixels == 0..MaxPixel
Tensors == [1..NPix -> Pixels]
Masks == [1..NPix -> {0, 1}]

-----------------------------------------------------------------------------
\* Floating-point values.

RECURSIVE GCD(_, _)
GCD(a, b) == IF b = 0 THEN a ELSE GCD(b, a % b)

NaN == <<"nan", 0, 0>>
Inf == <<"inf", 1, 0>>
Fin(n, d) == LET g == GCD(n, d) IN <<"fin", n \div g, d \div g>>
IsFinite(v) == v[1] = "fin"
IsNaN(v) == v[1] = "nan"

\* n / d for non-negative integers, as numpy and torch compute it with
\* warnings ignored (train.py:21): 0/0 is nan, n/0 is inf.
Div(n, d) ==
    IF d = 0 THEN (IF n = 0 THEN NaN ELSE Inf) ELSE Fin(n, d)

\* a / b, a + b, a < b for finite non-negative values
FDiv(a, b) == Div(a[2] * b[3], a[3] * b[2])
FAdd(a, b) == Fin(a[2] * b[3] + b[2] * a[3], a[3] * b[3])
FMul(a, b) == Fin(a[2] * b[2], a[3] * b[3])
FLess(a, b) == a[2] * b[3] < b[2] * a[3]
\* a > b as numpy evaluates it: false when either side is nan
FGreater(a, b) ==
    CASE IsNaN(a) \/ IsNaN(b) -> FALSE
      [] a[1] = "inf" -> b[1] # "inf"
      [] b[1] = "inf" -> FALSE
      [] OTHER -> FLess(b, a)

-----------------------------------------------------------------------------
\* Tensors and losses.

RECURSIVE SumTo(_, _)
SumTo(t, k) == IF k = 0 THEN 0 ELSE t[k] + SumTo(t, k - 1)
\* torch.sum / numpy sum over all elements
Sum(t) == SumTo(t, Len(t))

\* elementwise product a * b
Mul(a, b) == [p \in DOMAIN a |-> a[p] * b[p]]

\* variant: the absolute error
MSELossAbs(a, b) == [p \in DOMAIN a |-> IF a[p] >= b[p] THEN a[p] - b[p] ELSE b[p] - a[p]]
\* nn.MSELoss(reduction='none'): elementwise squared error
MSELossNone(a, b) == [p \in DOMAIN a |-> (a[p] - b[p]) * (a[p] - b[p])]

\* nn.MSELoss(): mean of the squared error over all elements
MSELossMean(a, b) == Div(Sum(MSELossNone(a, b)), Len(a))

\* variants: division by the pixel count; a zero mask sum guarded
MaskedReduceByCount(l, m) == Div(Sum(l), Len(m))
MaskedReduceGuarded(l, m) == IF Sum(m) = 0 THEN Fin(0, 1) ELSE Div(Sum(l), Sum(m))
\* the reduction of MaskedMSE.forward, __init__.py:25
MaskedReduce(l, m) == Div(Sum(l), Sum(m))

\* MaskedMSE.forward
MaskedMSE(reduction, inp, tgt, m) ==
    LET l == MSELossNone(Mul(inp, m), Mul(tgt, m))
    IN  IF reduction = "mean" THEN MaskedReduce(l, m) ELSE l

\* evaluate, lines 107-111, for one sample of the batch: the outer loss summed
\* over the sample's pixels, divided by the sample's mask sum
SampleScore(masked_loss_on_val, output, inp, m) ==
    LET l == IF masked_loss_on_val
             THEN MaskedMSE("none", output, inp, m)
             ELSE MSELossNone(output, inp)
    IN  Div(Sum(l), Sum(m))

-----------------------------------------------------------------------------
\* SpecLoss: the loss functions applied to tensors drawn from bounded sets.

\* MaskedMSE(reduction).forward(input, target, mask)
MaskedMSEForward ==
    /\ call = <<"idle", "">>
    /\ \E reduction \in {"mean", "none"} :
          /\ call' = <<"MaskedMSE", reduction>>
          /\ result' = MaskedMSE(reduction, input, target, mask)
    /\ UNCHANGED <<input, target, mask>>

\* the score evaluate gives one sample (output = input, inp = target)
EvaluateScore ==
    /\ call = <<"idle", "">>
    /\ \E masked_loss_on_val \in BOOLEAN :
          /\ call' = <<"score", IF masked_loss_on_val THEN "masked" ELSE "unmasked">>
          /\ result' = SampleScore(masked_loss_on_val, input, target, mask)
    /\ UNCHANGED <<input, target, mask>>

-----------------------------------------------------------------------------
\* The architectures: constructor defaults and layer lists.

Baseline_encoder_in_chanels == <<1, 16, 32, 32, 64, 64, 128, 128, 256, 256>>
Baseline_encoder_out_chanels == <<16, 32, 32, 64, 64, 128, 128, 256, 256, 512>>
Baseline_encoder_kernel_sizes == <<3, 4, 3, 4, 3, 4, 3, 4, 3, 4>>
Baseline_encoder_strides == <<1, 2, 1, 2, 1, 2, 1, 2, 1, 2>>
Baseline_decoder_in_chanels == <<512, 256, 128, 64, 32, 16>>
Baseline_decoder_out_chanels == <<256, 128, 64, 32, 16, 1>>
Baseline_decoder_kernel_sizes == <<4, 4, 4, 4, 4, 3>>
Baseline_decoder_strides == <<2, 2, 2, 2, 2, 1>>

Bottleneck_encoder_in_chanels == <<1, 16, 32, 64, 128, 256>>
Bottleneck_encoder_out_chanels == <<16, 32, 64, 128, 256, 256>>
Bottleneck_encoder_kernel_sizes == <<3, 4, 4, 4, 4, 1>>
Bottleneck_encoder_strides == <<1, 2, 2, 2, 2, 1>>
Bottleneck_decoder_in_chanels == <<256, 256, 128, 64, 32, 16>>
Bottleneck_decoder_out_chanels == <<256, 128, 64, 32, 16, 1>>
Bottleneck_decoder_kernel_sizes == <<1, 4, 4, 4, 4, 3>>
Bottleneck_decoder_strides == <<1, 2, 2, 2, 2, 1>>

\* The identity of a layer object: the constructor that created it, the list
\* it was appended to, the loop index and its type, as one number (two
\* objects are the same object iff their numbers are equal).
ObjectId(owner, stack, i, type) ==
    (IF owner = "BaselineAutoencoder" THEN 0 ELSE 200)
    + (IF stack = "encoder" THEN 0 ELSE 100)
    + 8 * i
    + (CASE type = "Conv2d" -> 1
         [] type = "ConvTranspose2d" -> 2
         [] type = "BatchNorm2d" -> 3
         [] type = "MaxPool2d" -> 4
         [] type = "MaxUnpool2d" -> 5
         [] type = "internal_activation" -> 6
         [] type = "final_activation" -> 7)

\* One layer object.  p is the padding, cin/cout the channel counts
\* (cout = num_features of a BatchNorm2d).
Layer(owner, stack, i, type, cin, cout, k, s, p) ==
    [type |-> type, cin |-> cin, cout |-> cout, k |-> k, s |-> s, p |-> p,
     id |-> ObjectId(owner, stack, i, type)]

RECURSIVE Concat(_, _)
\* parts[1] \o ... \o parts[n]
Concat(parts, n) == IF n = 0 THEN <<>> ELSE Concat(parts, n - 1) \o parts[n]

\* BaselineAutoencoder.__init__, lines 47-54
BaselineEncoderLayers(owner, cin, cout, ks, ss, bn) ==
    Concat([i \in 1..Len(cin) |->
              <<Layer(owner, "encoder", i, "Conv2d", cin[i], cout[i], ks[i], ss[i], 1)>>
              \o (IF bn
                  THEN <<Layer(owner, "encoder", i, "BatchNorm2d", cout[i], cout[i], 0, 0, 0)>>
                  ELSE <<>>)
              \o <<Layer(owner, "encoder", i, "internal_activation", 0, 0, 0, 0, 0)>>],
           Len(cin))

\* BaselineAutoencoder.__init__, lines 56-64
BaselineDecoderLayers(owner, cin, cout, ks, ss, bn) ==
    Concat([i \in 1..Len(cin) |->
              <<Layer(owner, "decoder", i, "ConvTranspose2d", cin[i], cout[i], ks[i], ss[i], 1)>>
              \o (IF bn /\ i < Len(cin)
                  THEN <<Layer(owner, "decoder", i, "BatchNorm2d", cout[i], cout[i], 0, 0, 0)>>
                  ELSE <<>>)
              \o <<Layer(owner, "decoder", i, "internal_activation", 0, 0, 0, 0, 0)>>],
           Len(cin))
    \o <<Layer(owner, "decoder", Len(cin) + 1, "final_activation", 0, 0, 0, 0, 0)>>

\* BottleneckAutoencoder.__init__, lines 189-198
BottleneckEncoderLayers(owner, cin, cout, ks, ss, bn) ==
    Concat([i \in 1..Len(cin) |->
              <<Layer(owner, "encoder", i, "Conv2d", cin[i], cout[i], ks[i], ss[i], 1)>>
              \o (IF i < Len(cin)
                  THEN <<Layer(owner, "encoder", i, "MaxPool2d", 0, 0, 2, 2, 0)>>
                  ELSE <<>>)
              \o (IF bn
                  THEN <<Layer(owner, "encoder", i, "BatchNorm2d", cout[i], cout[i], 0, 0, 0)>>
                  ELSE <<>>)
              \o <<Layer(owner, "encoder", i, "internal_activation", 0, 0, 0, 0, 0)>>],
           Len(cin))

\* BottleneckAutoencoder.__init__, lines 200-212
BottleneckDecoderLayers(owner, cin, cout, ks, ss, bn) ==
    Concat([i \in 1..Len(cin) |->
              <<Layer(owner, "decoder", i, "ConvTranspose2d", cin[i], cout[i], ks[i], ss[i], 1)>>
              \o (IF i < Len(cin)
                  THEN <<Layer(owner, "decoder", i, "MaxUnpool2d", 0, 0, 2, 2, 0)>>
                  ELSE <<>>)
              \o (IF bn /\ i < Len(cin)
                  THEN <<Layer(owner, "decoder", i, "BatchNorm2d", cout[i], cout[i], 0, 0, 0)>>
                  ELSE <<>>)
              \o (IF i < Len(cin)
                  THEN <<Layer(owner, "decoder", i, "internal_activation", 0, 0, 0, 0, 0)>>
                  ELSE <<Layer(owner, "decoder", i, "final_activation", 0, 0, 0, 0, 0)>>)],
           Len(cin))

\* the layer types that hold learnable weights
ParamTypes == {"Conv2d", "ConvTranspose2d", "BatchNorm2d"}

\* the parametrised layer objects of a layer list (nn.Sequential(...).parameters())
Parameters(layers) ==
    {layers[i].id : i \in {j \in DOMAIN layers : layers[j].type \in ParamTypes}}

\* BaselineAutoencoder.__init__ with its default parameter lists: the layer
\* lists, and the optimizer built over self.parameters() at line 74.
BaselineInit(bn) ==
    LET owner == "BaselineAutoencoder"
        enc == BaselineEncoderLayers(owner, Baseline_encoder_in_chanels,
                   Baseline_encoder_out_chanels, Baseline_encoder_kernel_sizes,
                   Baseline_encoder_strides, bn)
        dec == BaselineDecoderLayers(owner, Baseline_decoder_in_chanels,
                   Baseline_decoder_out_chanels, Baseline_decoder_kernel_sizes,
                   Baseline_decoder_strides, bn)
    IN  [encoder_layers |-> enc, decoder_layers |-> dec,
         optimizer |-> Parameters(enc) \cup Parameters(dec),
         created |-> Parameters(enc) \cup Parameters(dec)]

\* BottleneckAutoencoder.__init__: super().__init__(*args, **kwargs) runs
\* BaselineAutoencoder.__init__ with the baseline's own defaults
\* (use_batchnorm is a named parameter of the subclass and is not forwarded),
\* which builds the optimizer; lines 189-215 then replace the layer lists
\* and self.encoder / self.decoder.  self.optimizer is not rebuilt.
BottleneckInit(bn) ==
    LET owner == "BottleneckAutoencoder"
        base == BaselineInit(TRUE)
        enc == BottleneckEncoderLayers(owner, Bottleneck_encoder_in_chanels,
                   Bottleneck_encoder_out_chanels, Bottleneck_encoder_kernel_sizes,
                   Bottleneck_encoder_strides, bn)
        dec == BottleneckDecoderLayers(owner, Bottleneck_decoder_in_chanels,
                   Bottleneck_decoder_out_chanels, Bottleneck_decoder_kernel_sizes,
                   Bottleneck_decoder_strides, bn)
    IN  [encoder_layers |-> enc, decoder_layers |-> dec,
         optimizer |-> base.optimizer,
         created |-> base.created \cup Parameters(enc) \cup Parameters(dec)]

Classes == {"BaselineAutoencoder", "BottleneckAutoencoder"}

\* model_class(use_batchnorm=...)
Construct(class, bn) ==
    IF class = "BaselineAutoencoder" THEN BaselineInit(bn) ELSE BottleneckInit(bn)

\* self.encoder_layers and self.decoder_layers of the constructed instance
encoder_layers == Construct(model_class, use_batchnorm).encoder_layers
decoder_layers == Construct(model_class, use_batchnorm).decoder_layers

-----------------------------------------------------------------------------
\* SpecForward: the forward pass, one layer per step, on tensor shapes.

\* input sizes tried; train.py configures 512
ImageResolutions == {256, 500, 512, 1024}

\* output size of nn.Conv2d / nn.MaxPool2d: floor((n + 2p - k) / s) + 1
ConvOut(n, k, s, p) == ((n + 2 * p - k) \div s) + 1
\* variant: one more
ConvTransposeOutOff(n, k, s, p) == (n - 1) * s - 2 * p + k + 1
\* output size of nn.ConvTranspose2d / nn.MaxUnpool2d: (n - 1) s - 2p + k
ConvTransposeOut(n, k, s, p) == (n - 1) * s - 2 * p + k

Raised == [c |-> 0, n |-> 0]

\* layer(x) for a layer called with the tensor alone; Raised where torch raises
\* (channel mismatch, empty output, a pooling layer called this way)
Apply(layer, t) ==
    CASE layer.type = "Conv2d" ->
            IF t.c = layer.cin /\ ConvOut(t.n, layer.k, layer.s, layer.p) >= 1
            THEN [c |-> layer.cout, n |-> ConvOut(t.n, layer.k, layer.s, layer.p)]
            ELSE Raised
      [] layer.type = "ConvTranspose2d" ->
            IF t.c = layer.cin /\ ConvTransposeOut(t.n, layer.k, layer.s, layer.p) >= 1
            THEN [c |-> layer.cout, n |-> ConvTransposeOut(t.n, layer.k, layer.s, layer.p)]
            ELSE Raised
      [] layer.type = "BatchNorm2d" ->
            IF t.c = layer.cout THEN t ELSE Raised
      [] layer.type \in {"internal_activation", "final_activation"} -> t
      [] OTHER -> Raised

\* the list being iterated, and where the pass goes after layer f_i
CurrentLayers == IF f_pc = "encoder" THEN encoder_layers ELSE decoder_layers
Advance(t) ==
    IF t = Raised
    THEN f_pc' = "raised" /\ f_i' = f_i
    ELSE IF f_i < Len(CurrentLayers)
         THEN f_pc' = f_pc /\ f_i' = f_i + 1
         ELSE IF f_pc = "encoder"
              THEN f_pc' = "decoder" /\ f_i' = 1
              ELSE f_pc' = "returned" /\ f_i' = f_i

\* BaselineAutoencoder.forward hands every layer the tensor (nn.Sequential);
\* BottleneckAutoencoder.forward does so for every layer that is not a
\* MaxPool2d in the encoder loop or a MaxUnpool2d in the decoder loop.
IsPoolStep ==
    /\ model_class = "BottleneckAutoencoder"
    /\ f_pc = "encoder"
    /\ CurrentLayers[f_i].type = "MaxPool2d"
IsUnpoolStep ==
    /\ model_class = "BottleneckAutoencoder"
    /\ f_pc = "decoder"
    /\ CurrentLayers[f_i].type = "MaxUnpool2d"

\* x = layer(x)
ForwardLayer ==
    /\ f_pc \in {"encoder", "decoder"}
    /\ ~IsPoolStep /\ ~IsUnpoolStep
    /\ x' = Apply(CurrentLayers[f_i], x)
    /\ Advance(x')
    /\ UNCHANGED <<maxpool_ind, f_pools, f_unpools>>

\* x, ind = layer(x); maxpool_ind.append(ind)
ForwardMaxPool ==
    /\ f_pc = "encoder" /\ IsPoolStep
    /\ LET layer == CurrentLayers[f_i]
           n == ConvOut(x.n, layer.k, layer.s, layer.p)
       IN  IF n >= 1
           THEN /\ x' = [c |-> x.c, n |-> n]
                /\ maxpool_ind' = Append(maxpool_ind,
                                         [pool |-> f_pools + 1, c |-> x.c, n |-> n])
                /\ f_pools' = f_pools + 1
           ELSE /\ x' = Raised
                /\ UNCHANGED <<maxpool_ind, f_pools>>
    /\ Advance(x')
    /\ UNCHANGED f_unpools

\* variant: the oldest element
PopIndexFirst(list) == 1
\* which element maxpool_ind.pop(-1) removes
PopIndex(list) == Len(list)

\* ind = maxpool_ind.pop(-1); x = layer(x, ind)
ForwardMaxUnpool ==
    /\ f_pc = "decoder" /\ IsUnpoolStep
    /\ IF maxpool_ind = <<>>
       THEN /\ x' = Raised
            /\ UNCHANGED <<maxpool_ind, f_unpools>>
       ELSE LET layer == CurrentLayers[f_i]
                at == PopIndex(maxpool_ind)
                ind == maxpool_ind[at]
            IN  /\ maxpool_ind' = [j \in 1..(Len(maxpool_ind) - 1) |->
                                     IF j < at THEN maxpool_ind[j] ELSE maxpool_ind[j + 1]]
                /\ f_unpools' = Append(f_unpools, [ind |-> ind, x |-> x])
                /\ x' = IF ind.c = x.c /\ ind.n = x.n
                        THEN [c |-> x.c, n |-> ConvTransposeOut(x.n, layer.k, layer.s, layer.p)]
                        ELSE Raised
    /\ Advance(x')
    /\ UNCHANGED f_pools

-----------------------------------------------------------------------------
\* evaluate: the metrics computed from the accumulated scores and labels.

None == <<>>
Some(v) == <<v>>

Zero == Fin(0, 1)
One == Fin(1, 1)

\* numpy .mean() of a non-empty array of finite values
RECURSIVE FSumTo(_, _)
FSumTo(a, k) == IF k = 0 THEN Zero ELSE FAdd(FSumTo(a, k - 1), a[k])
Mean(a) == FDiv(FSumTo(a, Len(a)), Fin(Len(a), 1))

\* number of indices of a satisfying P
Count(a, P(_)) == Cardinality({i \in DOMAIN a : P(i)})

\* sklearn.metrics.roc_auc_score raises ValueError when a score is not finite
\* or when y_true holds a single class
RocAucRaises(y_true, y_score) ==
    \/ \E i \in DOMAIN y_score : ~IsFinite(y_score[i])
    \/ \A i \in DOMAIN y_true : y_true[i] = 0
    \/ \A i \in DOMAIN y_true : y_true[i] = 1

\* roc_auc_score: the share of (abnormal, normal) pairs ranked correctly, a tie
\* counting one half
RocAuc(y_true, y_score) ==
    LET pairs == {pq \in (DOMAIN y_true) \X (DOMAIN y_true) :
                     y_true[pq[1]] = 1 /\ y_true[pq[2]] = 0}
        gt == Cardinality({pq \in pairs : FLess(y_score[pq[2]], y_score[pq[1]])})
        eq == Cardinality({pq \in pairs : y_score[pq[2]] = y_score[pq[1]]})
    IN  Fin(2 * gt + eq, 2 * Cardinality(pairs))

\* the distinct values of S in decreasing order
RECURSIVE SortDesc(_)
SortDesc(S) ==
    IF S = {} THEN <<>>
    ELSE LET m == CHOOSE v \in S : \A w \in S : ~FLess(v, w)
         IN  <<m>> \o SortDesc(S \ {m})

\* sklearn.metrics.precision_recall_curve(y_true, probas_pred), as released
\* when the repository was written: one point per distinct score, a sample
\* counted as predicted positive when its score >= the threshold; the points
\* below the first threshold of full recall are dropped, the rest are
\* returned by increasing threshold, and a last point (precision 1, recall 0)
\* without threshold is appended.  (Later releases keep the dropped points;
\* their recall is 1 and their precision smaller, so neither the maximal F1
\* nor the threshold picked below changes.)
PrecisionRecallCurve(y_true, probas_pred) ==
    LET desc == SortDesc({probas_pred[i] : i \in DOMAIN probas_pred})
        tps == [j \in DOMAIN desc |->
                  Count(y_true, LAMBDA i : y_true[i] = 1 /\ ~FLess(probas_pred[i], desc[j]))]
        fps == [j \in DOMAIN desc |->
                  Count(y_true, LAMBDA i : y_true[i] = 0 /\ ~FLess(probas_pred[i], desc[j]))]
        total == tps[Len(desc)]
        last_ind == CHOOSE j \in DOMAIN desc :
                       /\ tps[j] >= total
                       /\ \A h \in 1..(j - 1) : tps[h] < total
        rev(j) == last_ind + 1 - j
    IN  [precision |-> [j \in 1..(last_ind + 1) |->
                          IF j <= last_ind
                          THEN Div(tps[rev(j)], tps[rev(j)] + fps[rev(j)])
                          ELSE One],
         recall |-> [j \in 1..(last_ind + 1) |->
                          IF j <= last_ind THEN Div(tps[rev(j)], total) ELSE Zero],
         thresholds |-> [j \in 1..last_ind |-> desc[rev(j)]]]

\* 2 * precision * recall / (precision + recall), elementwise; 0/0 is nan
F1Scores(precision, recall) ==
    [j \in DOMAIN precision |->
        FDiv(FMul(Fin(2, 1), FMul(precision[j], recall[j])),
             FAdd(precision[j], recall[j]))]

\* np.nanmax: the largest value that is not nan
NanMax(a) ==
    LET defined == {a[j] : j \in {h \in DOMAIN a : ~IsNaN(a[h])}}
    IN  IF defined = {} THEN NaN
        ELSE CHOOSE v \in defined : \A w \in defined : ~FLess(v, w)

\* np.nanargmax: the first index of the largest value that is not nan
NanArgMax(a) ==
    CHOOSE j \in DOMAIN a :
        /\ a[j] = NanMax(a)
        /\ \A h \in 1..(j - 1) : a[h] # NanMax(a)

\* variant: the first index of the smallest value that is not nan
ArgMin(a) ==
    CHOOSE j \in DOMAIN a :
        /\ ~IsNaN(a[j])
        /\ \A h \in DOMAIN a : IsNaN(a[h]) \/ ~FLess(a[h], a[j])
        /\ \A h \in 1..(j - 1) : IsNaN(a[h]) \/ FLess(a[j], a[h])

\* np.argmax: nan compares as the maximum, so the first nan wins if there is
\* one; otherwise the first index of the largest value
ArgMax(a) ==
    IF \E j \in DOMAIN a : IsNaN(a[j])
    THEN CHOOSE j \in DOMAIN a : IsNaN(a[j]) /\ \A h \in 1..(j - 1) : ~IsNaN(a[h])
    ELSE NanArgMax(a)

\* (losses > opt_threshold).astype(int)
Predict(scores, threshold) ==
    [i \in DOMAIN scores |-> IF FGreater(scores[i], threshold) THEN 1 ELSE 0]

\* sklearn.metrics.f1_score(y_true, y_pred) for the positive class 1:
\* precision and recall with an empty denominator counted as 0, and F1 = 0
\* when both are 0
F1Score(y_true, y_pred) ==
    LET tp == Count(y_true, LAMBDA i : y_true[i] = 1 /\ y_pred[i] = 1)
        pred == Count(y_true, LAMBDA i : y_pred[i] = 1)
        actual == Count(y_true, LAMBDA i : y_true[i] = 1)
        precision == IF pred = 0 THEN Zero ELSE Fin(tp, pred)
        recall == IF actual = 0 THEN Zero ELSE Fin(tp, actual)
    IN  IF tp = 0 THEN Zero
        ELSE FDiv(FMul(Fin(2, 1), FMul(precision, recall)), FAdd(precision, recall))

Metrics(roc_auc, mse, f1, threshold) ==
    [roc_auc |-> roc_auc, mse |-> mse, f1_score |-> f1,
     optimal_mse_threshold |-> threshold]

\* evaluate, lines 122-126: the validation branch.  thresholds[k] raises
\* IndexError when k is the index of the appended last point.
ValidationF1(y_true, scores) ==
    LET curve == PrecisionRecallCurve(y_true, scores)
        f1_scores == F1Scores(curve.precision, curve.recall)
        k == ArgMax(f1_scores)
    IN  [f1 |-> NanMax(f1_scores),
         k |-> k,
         raised |-> k > Len(curve.thresholds),
         threshold |-> IF k > Len(curve.thresholds) THEN NaN ELSE curve.thresholds[k]]

\* evaluate, lines 127-129: the test branch
TestF1(y_true, scores, threshold) == F1Score(y_true, Predict(scores, threshold))

-----------------------------------------------------------------------------
\* Spec: the training script, train.py.

\* run_params, train.py:35-46
batch_normalisation == TRUE
masked_loss_on_val == TRUE
masked_loss_on_train == TRUE

\* Images are normalised to [0, 1] and a reconstruction lies in the same
\* range; the loaders' pixels take the two ends of it.
Images == [1..ImagePixels -> {0, 1}]
ImageMasks == [1..ImagePixels -> {0, 1}]

\* what one sample of an evaluation batch contributes: its score
\* (lines 106-111, the reconstruction being any image) and its label
ScoredSamples ==
    {<<SampleScore(masked_loss_on_val, output, inp, m), label>> :
        <<output, inp, m, label>> \in Images \X Images \X ImageMasks \X {0, 1}}

\* the learnable weights forward runs through
ForwardParameters == Parameters(encoder_layers) \cup Parameters(decoder_layers)

\* self.optimizer.zero_grad(): the gradients of the optimizer's parameters
ZeroGrad(g) ==
    [q \in DOMAIN g |-> IF q \in optimizer /\ g[q] # "none" THEN "zero" ELSE g[q]]
\* loss.backward(): the gradients of the parameters the loss was computed from
Backward(g) ==
    LET used == ForwardParameters
    IN  [q \in DOMAIN g |-> IF q \in used THEN "set" ELSE g[q]]
\* self.optimizer.step(): every parameter of the optimizer that has a gradient
Step(w, g) ==
    [q \in DOMAIN w |-> IF q \in optimizer /\ g[q] # "none" THEN w[q] + 1 ELSE w[q]]

\* self.inner_loss(...), line 153
InnerLoss(output, inp, m) ==
    IF masked_loss_on_train THEN MaskedMSE("mean", output, inp, m)
    ELSE MSELossMean(output, inp)

\* train.py:90-93, model = model_class(...)
ConstructModel ==
    /\ pc = "construct"
    /\ LET self == Construct(model_class, use_batchnorm)
       IN  /\ optimizer' = self.optimizer
           /\ weights' = [q \in self.created |-> 0]
           /\ grads' = [q \in self.created |-> "none"]
    /\ pc' = "for_epoch"
    /\ UNCHANGED <<model_class, use_batchnorm, num_epochs, train_batches, epoch,
                   batches, loss, val_metrics, val_passes, evalVars>>

\* train.py:113, the next epoch begins
NextEpoch ==
    /\ pc = "for_epoch"
    /\ epoch < num_epochs
    /\ epoch' = epoch + 1
    /\ batches' = 0
    /\ pc' = "train"
    /\ UNCHANGED <<num_epochs, train_batches, loss, val_metrics,
                   val_passes, modelVars, evalVars>>

\* train.py:117-118 and train_on_batch
TrainOnBatch ==
    /\ pc = "train"
    /\ batches < train_batches
    /\ grads' = Backward(ZeroGrad(grads))
    /\ weights' = Step(weights, grads')
    /\ batches' = batches + 1
    /\ \E output \in Images, inp \in Images, m \in ImageMasks :
          loss' = Some(InnerLoss(output, inp, m))
    /\ UNCHANGED <<pc, num_epochs, train_batches, epoch, val_metrics, val_passes,
                   model_class, use_batchnorm, optimizer, evalVars>>

\* evaluate, lines 96-100: the call's locals
EvaluateEnter(type, arg_val_metrics) ==
    /\ eval_type' = type
    /\ opt_threshold' = IF arg_val_metrics # None
                        THEN Some(arg_val_metrics[1].optimal_mse_threshold)
                        ELSE None
    /\ losses' = <<>>
    /\ true_labels' = <<>>
    /\ metrics' = None
    /\ pc' = "evaluate_loop"

\* train.py:121-124: the epoch's batches are done, the last loss is printed
\* (its only use: the value is dropped here) and the validation pass is
\* called without val_metrics
Validate ==
    /\ pc = "train"
    /\ batches = train_batches
    /\ loss' = None
    /\ EvaluateEnter("validation", None)
    /\ UNCHANGED <<num_epochs, train_batches, epoch, batches, val_metrics,
                   val_passes, modelVars>>

\* variant: none
TestArgumentNone(v) == None
\* which val_metrics train.py:133 hands to the test pass
TestArgument(v) == v

\* train.py:130-133: the epochs are over, the test pass is called with val_metrics
TestPerformance ==
    /\ pc = "for_epoch"
    /\ epoch >= num_epochs
    /\ EvaluateEnter("test", TestArgument(val_metrics))
    /\ UNCHANGED <<num_epochs, train_batches, epoch, batches, loss,
                   val_metrics, val_passes, modelVars>>

\* evaluate, lines 101-112: one batch of the loader
EvaluateBatch ==
    /\ pc = "evaluate_loop"
    /\ \E n \in 1..BatchSize :
          /\ Len(losses) + n <= MaxSamples
          /\ \E batch \in [1..n -> ScoredSamples] :
                /\ losses' = losses \o [j \in 1..n |-> batch[j][1]]
                /\ true_labels' = true_labels \o [j \in 1..n |-> batch[j][2]]
    /\ UNCHANGED <<eval_type, opt_threshold, metrics, trainVars, modelVars>>

\* evaluate, lines 114-138: the loader is exhausted, the metrics are computed
EvaluateMetrics ==
    /\ pc = "evaluate_loop"
    /\ losses # <<>>
    /\ IF RocAucRaises(true_labels, losses)
       THEN /\ pc' = "raised"
            /\ UNCHANGED <<opt_threshold, metrics>>
       ELSE IF opt_threshold = None
            THEN LET v == ValidationF1(true_labels, losses)
                 IN  IF v.raised
                     THEN /\ pc' = "raised"
                          /\ UNCHANGED <<opt_threshold, metrics>>
                     ELSE /\ opt_threshold' = Some(v.threshold)
                          /\ metrics' = Some(Metrics(RocAuc(true_labels, losses),
                                                     Mean(losses), v.f1, v.threshold))
                          /\ pc' = "evaluate_return"
            ELSE /\ metrics' = Some(Metrics(RocAuc(true_labels, losses), Mean(losses),
                                            TestF1(true_labels, losses, opt_threshold[1]),
                                            opt_threshold[1]))
                 /\ pc' = "evaluate_return"
                 /\ UNCHANGED opt_threshold
    /\ UNCHANGED <<eval_type, losses, true_labels, modelVars>>
    /\ UNCHANGED <<num_epochs, train_batches, epoch, batches, loss,
                   val_metrics, val_passes>>

\* evaluate, line 144, and the caller: train.py:124 stores the validation
\* metrics in val_metrics; train.py:133 is the script's last use of the model
EvaluateReturn ==
    /\ pc = "evaluate_return"
    /\ IF eval_type = "validation"
       THEN /\ val_metrics' = metrics
            /\ val_passes' = val_passes + 1
            /\ pc' = "for_epoch"
       ELSE /\ pc' = "done"
            /\ UNCHANGED <<val_metrics, val_passes>>
    /\ UNCHANGED <<num_epochs, train_batches, epoch, batches, loss,
                   modelVars, evalVars>>

-----------------------------------------------------------------------------
\* Initial states and specifications.

LossIdle ==
    /\ input = <<>> /\ target = <<>> /\ mask = <<>>
    /\ call = <<"off", "">> /\ result = <<>>

ForwardIdle ==
    /\ image_resolution = 0
    /\ f_pc = "off" /\ f_i = 0 /\ x = Raised
    /\ maxpool_ind = <<>> /\ f_pools = 0 /\ f_unpools = <<>>

ModelIdle ==
    /\ model_class = "" /\ use_batchnorm = FALSE
    /\ weights = <<>> /\ grads = <<>> /\ optimizer = {}

EvalIdle ==
    /\ eval_type = "" /\ opt_threshold = None
    /\ losses = <<>> /\ true_labels = <<>> /\ metrics = None

TrainIdle ==
    /\ pc = "off" /\ num_epochs = 0 /\ train_batches = 0
    /\ epoch = 0 /\ batches = 0 /\ loss = None /\ val_metrics = None
    /\ val_passes = 0

InitLoss ==
    /\ input \in Tensors /\ target \in Tensors /\ mask \in Masks
    /\ call = <<"idle", "">> /\ result = <<>>
    /\ ForwardIdle /\ ModelIdle /\ EvalIdle /\ TrainIdle

NextLoss ==
    \/ MaskedMSEForward /\ UNCHANGED <<fwdVars, modelVars, evalVars, trainVars>>
    \/ EvaluateScore /\ UNCHANGED <<fwdVars, modelVars, evalVars, trainVars>>

SpecLoss == InitLoss /\ [][NextLoss]_vars

InitForward ==
    /\ model_class \in Classes /\ use_batchnorm \in BOOLEAN
    /\ image_resolution \in ImageResolutions
    /\ LET self == Construct(model_class, use_batchnorm)
       IN  /\ optimizer = self.optimizer
           /\ weights = [q \in self.created |-> 0]
           /\ grads = [q \in self.created |-> "none"]
    /\ f_pc = "encoder" /\ f_i = 1
    /\ x = [c |-> 1, n |-> image_resolution]
    /\ maxpool_ind = <<>> /\ f_pools = 0 /\ f_unpools = <<>>
    /\ LossIdle /\ EvalIdle /\ TrainIdle

NextForward ==
    \/ ForwardLayer /\ UNCHANGED <<image_resolution, lossVars,
                                   modelVars, evalVars, trainVars>>
    \/ ForwardMaxPool /\ UNCHANGED <<image_resolution, lossVars,
                                     modelVars, evalVars, trainVars>>
    \/ ForwardMaxUnpool /\ UNCHANGED <<image_resolution, lossVars,
                                       modelVars, evalVars, trainVars>>

SpecForward == InitForward /\ [][NextForward]_vars

Init ==
    /\ pc = "construct"
    /\ model_class \in Classes
    /\ use_batchnorm = batch_normalisation
    /\ num_epochs \in 0..MaxEpochs
    /\ train_batches \in 1..MaxBatches
    /\ epoch = 0 /\ batches = 0 /\ loss = None
    /\ val_metrics = None /\ val_passes = 0
    /\ weights = <<>> /\ grads = <<>> /\ optimizer = {}
    /\ EvalIdle /\ LossIdle /\ ForwardIdle

Next ==
    \/ ConstructModel /\ UNCHANGED <<lossVars, fwdVars>>
    \/ NextEpoch /\ UNCHANGED <<lossVars, fwdVars>>
    \/ TrainOnBatch /\ UNCHANGED <<lossVars, fwdVars>>
    \/ Validate /\ UNCHANGED <<lossVars, fwdVars>>
    \/ TestPerformance /\ UNCHANGED <<lossVars, fwdVars>>
    \/ EvaluateBatch /\ UNCHANGED <<lossVars, fwdVars>>
    \/ EvaluateMetrics /\ UNCHANGED <<lossVars, fwdVars>>
    \/ EvaluateReturn /\ UNCHANGED <<lossVars, fwdVars>>

Spec == Init /\ [][Next]_vars

-----------------------------------------------------------------------------
\* Properties of the loss functions (SpecLoss).

RECURSIVE SquaredErrorOver(_, _, _, _)
\* the sum of (a[p] - b[p])^2 over the pixels p <= k with keep[p] = 1
SquaredErrorOver(a, b, keep, k) ==
    IF k = 0 THEN 0
    ELSE SquaredErrorOver(a, b, keep, k - 1)
         + (IF keep[k] = 1 THEN (a[k] - b[k]) * (a[k] - b[k]) ELSE 0)

AllOnes == [p \in 1..NPix |-> 1]
MaskedPixels == {p \in DOMAIN mask : mask[p] = 1}
MaskedMeanCalled == call = <<"MaskedMSE", "mean">>

\* C1: with a mask of all ones, MaskedMSE(reduction='mean') returns the
\* standard mean-squared-error: the sum of the squared differences over all
\* pixels divided by the number of pixels.
C1_AllOnesMaskIsMSE ==
    (MaskedMeanCalled /\ mask = AllOnes)
        => result = Fin(SquaredErrorOver(input, target, AllOnes, NPix), NPix)

C1_Witness ==
    /\ MaskedMeanCalled /\ mask = AllOnes
    /\ \E p \in DOMAIN input : input[p] - target[p] = 2
    /\ result # Zero

\* C4: with a mask of all zeros nothing guards the division by the mask sum:
\* MaskedMSE(reduction='mean') returns 0/0 = nan, and the score evaluate gives
\* the sample is 0/0 = nan under the masked outer loss (and not a finite
\* number under the unmasked one).
C4_ZeroMaskUndefined ==
    Sum(mask) = 0 =>
        /\ MaskedMeanCalled => result = NaN
        /\ call = <<"score", "masked">> => result = NaN
        /\ call = <<"score", "unmasked">> => ~IsFinite(result)

C4_Witness ==
    /\ MaskedMeanCalled /\ Sum(mask) = 0
    /\ input # target
    /\ result = NaN

\* the tensor t with pixel p set to v
With(t, p, v) == [t EXCEPT ![p] = v]

\* C5: with a 0/1 mask holding at least one 1, MaskedMSE(reduction='mean')
\* returns the squared error summed over the pixels where the mask is 1,
\* divided by the number of those pixels; changing input or target at a pixel
\* where the mask is 0 does not change it.
C5_MeanOverMaskedPixels ==
    (MaskedMeanCalled /\ MaskedPixels # {}) =>
        /\ result = Fin(SquaredErrorOver(input, target, mask, NPix),
                        Cardinality(MaskedPixels))
        /\ \A p \in DOMAIN mask \ MaskedPixels : \A v \in Pixels :
              /\ MaskedMSE("mean", With(input, p, v), target, mask) = result
              /\ MaskedMSE("mean", input, With(target, p, v), mask) = result

C5_Witness ==
    /\ MaskedMeanCalled
    /\ MaskedPixels # {} /\ MaskedPixels # DOMAIN mask
    /\ \E p \in DOMAIN mask \ MaskedPixels : input[p] # target[p]
    /\ \E p \in MaskedPixels : input[p] # target[p]
    /\ result # Zero

-----------------------------------------------------------------------------
\* Properties of the forward pass (SpecForward).

\* C3: with the default parameter lists and a 512x512 single-channel input,
\* forward raises in no layer and returns a tensor of one channel and
\* 512x512 pixels, for both architectures.
C3_RoundTrip512 ==
    image_resolution = 512 =>
        /\ f_pc # "raised"
        /\ f_pc = "returned" => x = [c |-> 1, n |-> 512]

C3_Witness ==
    /\ image_resolution = 512
    /\ f_pc = "returned"
    /\ model_class = "BottleneckAutoencoder"
    /\ x = [c |-> 1, n |-> 512]

\* the number of MaxPool2d layers of the encoder
EncoderPools ==
    Cardinality({j \in DOMAIN encoder_layers : encoder_layers[j].type = "MaxPool2d"})

\* C7: in BottleneckAutoencoder.forward the pooling indices form a stack:
\* each MaxPool2d pushes one entry, each MaxUnpool2d pops the latest one, no
\* pop finds the list empty, the list is empty at return, and the k-th
\* unpooling receives the indices of the k-th-from-last pooling, whose
\* channels and pooled size are those of the tensor being unpooled.
C7_PoolingIndicesStack ==
    (model_class = "BottleneckAutoencoder" /\ f_pc # "off") =>
        /\ Len(maxpool_ind) = f_pools - Len(f_unpools)
        /\ \A j \in DOMAIN maxpool_ind : maxpool_ind[j].pool = j
        /\ IsUnpoolStep => maxpool_ind # <<>>
        /\ f_pc = "returned" => maxpool_ind = <<>>
        /\ \A k \in DOMAIN f_unpools :
              /\ f_unpools[k].ind.pool = EncoderPools + 1 - k
              /\ f_unpools[k].ind.c = f_unpools[k].x.c
              /\ f_unpools[k].ind.n = f_unpools[k].x.n

C7_Witness ==
    /\ model_class = "BottleneckAutoencoder"
    /\ image_resolution = 512
    /\ f_pc = "returned"
    /\ Len(f_unpools) = 5
    /\ f_pools = 5

-----------------------------------------------------------------------------
\* Properties of evaluate and of the training script (Spec).

\* evaluate has computed its metrics and is about to return them
Returning == pc = "evaluate_return"
\* the call in progress was given no val_metrics
NoThresholdSupplied ==
    eval_type = "validation" \/ (eval_type = "test" /\ val_metrics = None)

\* every abnormal sample scores strictly higher than every normal one, and
\* both classes are present
Separated(y_true, scores) ==
    /\ \E i \in DOMAIN y_true : y_true[i] = 1
    /\ \E i \in DOMAIN y_true : y_true[i] = 0
    /\ \A i, j \in DOMAIN y_true :
          (y_true[i] = 1 /\ y_true[j] = 0) => FGreater(scores[i], scores[j])

\* C2: on perfectly separated scores, evaluate without a supplied threshold
\* does not raise, reports an F1 of 1, and returns a threshold under which
\* 'abnormal iff score >= threshold' classifies every sample correctly.
C2_SeparatedF1IsOne ==
    /\ (pc = "raised" /\ eval_type # "") => ~Separated(true_labels, losses)
    /\ (Returning /\ NoThresholdSupplied /\ Separated(true_labels, losses)) =>
          /\ metrics[1].f1_score = One
          /\ \A i \in DOMAIN losses :
                true_labels[i] = 1 <=>
                    ~FLess(losses[i], metrics[1].optimal_mse_threshold)

C2_Witness ==
    /\ Returning /\ eval_type = "validation"
    /\ Separated(true_labels, losses)
    /\ metrics[1].f1_score = One

\* C9 (as claimed): without a supplied threshold, the returned threshold is an
\* element of the thresholds array at whose index the F1 array holds the
\* returned F1.
C9_ThresholdAttainsF1 ==
    (Returning /\ NoThresholdSupplied) =>
        LET curve == PrecisionRecallCurve(true_labels, losses)
            f1_scores == F1Scores(curve.precision, curve.recall)
        IN  \E k \in DOMAIN curve.thresholds :
               /\ curve.thresholds[k] = metrics[1].optimal_mse_threshold
               /\ f1_scores[k] = metrics[1].f1_score

\* C10 (as claimed): evaluating the same scores and labels again with the
\* returned metrics supplied yields the same F1.
C10_TestRuleAgrees ==
    (Returning /\ NoThresholdSupplied) =>
        TestF1(true_labels, losses, metrics[1].optimal_mse_threshold)
            = metrics[1].f1_score

\* evaluate is running (or returning) for the given pass
InPass(type) == eval_type = type /\ pc \in {"evaluate_loop", "evaluate_return"}

C6_State ==
    num_epochs >= 1 =>
        \* each epoch's validation pass follows all of that epoch's batches,
        \* and one pass has completed per finished epoch
        /\ pc = "train" => val_passes = epoch - 1
        /\ pc = "for_epoch" => val_passes = epoch
        /\ InPass("validation") =>
              /\ batches = train_batches /\ epoch >= 1
              /\ val_passes = epoch - 1
              /\ pc = "evaluate_loop" => opt_threshold = None
              /\ Returning =>
                    metrics[1].optimal_mse_threshold
                        = ValidationF1(true_labels, losses).threshold
        \* the test pass follows the last epoch's validation pass and works
        \* with its threshold
        /\ InPass("test") =>
              /\ epoch = num_epochs /\ val_passes = num_epochs
              /\ val_metrics # None
              /\ opt_threshold = Some(val_metrics[1].optimal_mse_threshold)
              /\ Returning =>
                    /\ metrics[1].optimal_mse_threshold
                          = val_metrics[1].optimal_mse_threshold
                    /\ metrics[1].f1_score
                          = F1Score(true_labels,
                                    Predict(losses, val_metrics[1].optimal_mse_threshold))
        /\ pc = "done" =>
              /\ val_passes = num_epochs
              /\ metrics[1].optimal_mse_threshold = val_metrics[1].optimal_mse_threshold

C6_Step ==
    \* val_metrics changes only when a validation pass returns, to that pass's
    \* metrics; the test pass runs once, at the end
    /\ val_metrics' # val_metrics =>
          (Returning /\ eval_type = "validation" /\ val_metrics' = metrics)
    /\ (Returning /\ eval_type = "validation") => val_metrics' = metrics
    /\ eval_type = "test" => eval_type' = "test"

\* C6: with num_epochs >= 1, a validation pass without supplied threshold
\* follows the training batches of every epoch; the one test pass runs after
\* the last epoch's validation pass, is given that pass's metrics, computes
\* F1 at that threshold and returns the threshold unchanged.
C6_ValidationThenTest == []C6_State /\ [][C6_Step]_vars

C6_Witness ==
    /\ pc = "done"
    /\ num_epochs = 2 /\ val_passes = 2
    /\ metrics # None
    /\ metrics[1].optimal_mse_threshold = val_metrics[1].optimal_mse_threshold
    /\ metrics[1].f1_score = One

\* C8 (as claimed): once the model is constructed, the optimizer holds exactly
\* the learnable weights forward runs through, and each of them has been
\* stepped once per train_on_batch call.
C8_OptimizerHoldsForwardWeights ==
    pc \notin {"off", "construct"} =>
        /\ optimizer = ForwardParameters
        /\ \A q \in ForwardParameters :
              weights[q] = (IF pc = "train" THEN epoch - 1 ELSE epoch) * train_batches
                           + (IF pc = "train" THEN batches ELSE 0)

====
